---- MODULE Spec2Model ----
(***************************************************************************)
(* A model of turboshells-core: the tick-based race simulation             *)
(* (simulation/turtle.rs, terrain.rs, race.rs) and the genetics engine     *)
(* (genetics/genes.rs, inheritance.rs, mutation.rs).                       *)
(*                                                                         *)
(* Numbers.  The program computes in f32.  The model computes in fixed     *)
(* point: a quantity x is held as the integer floor(x * Unit), Unit = 10^6,*)
(* and every product and quotient is truncated to that grid (FMul, FDiv).  *)
(* Sums, differences and comparisons are exact.  IEEE specials (NaN, the   *)
(* infinities, subnormal underflow) are outside the model.                 *)
(***************************************************************************)
EXTENDS Integers, Sequences, FiniteSets, TLC

VARIABLES
    track,          \* Race.track: Seq of Terrain
    turtles,        \* Race.turtles: Seq of Turtle
    track_length,   \* Race.track_length
    tick_count,     \* Race.tick_count
    pc,             \* "idle" | "run_loop" (inside Race::run) | "aborted" (a panic unwound)
    ret,            \* the last call and what it returned: [op, val]
    calls,          \* direct tick() calls since construction or the last run()
    pool,           \* the caller's two trait sets (HashMap<String, GeneValue>)
    gret,           \* the last genetics call: [op, slot]
    gops            \* genetics calls made so far

raceVars == <<track, turtles, track_length, tick_count, pc, ret, calls>>
geneVars == <<pool, gret, gops>>
vars == <<track, turtles, track_length, tick_count, pc, ret, calls, pool, gret, gops>>

----------------------------------------------------------------------------
(* Fixed-point arithmetic *)

Milli == 10 * 100
Unit == Milli * Milli

\* floor(a * b / Unit) for a, b >= 0, computed without leaving 32 bits
FMul(a, b) ==
    LET ah == a \div Milli
        al == a % Milli
        bh == b \div Milli
        bl == b % Milli
    IN  ah * bh + (ah * bl + al * bh + (al * bl) \div Milli) \div Milli

RECURSIVE LongDiv(_, _, _, _)
LongDiv(r, b, digits, acc) ==
    IF digits = 0 THEN acc
    ELSE LongDiv((r * 10) % b, b, digits - 1, acc * 10 + (r * 10) \div b)

\* floor(a * Unit / b) for a >= 0, b > 0
FDiv(a, b) == LongDiv(a % b, b, 6, a \div b)

MinOf(a, b) == IF a <= b THEN a ELSE b

----------------------------------------------------------------------------
(* simulation/terrain.rs *)

TerrainTypes == {"Normal", "Water", "Rocks", "Sand", "Mud", "Boost"}

Terrain(type, speed_modifier, energy_drain) ==
    [terrain_type |-> type, speed_modifier |-> speed_modifier,
     energy_drain |-> energy_drain]

TerrainNormal == Terrain("Normal", Unit, Unit)
TerrainWater  == Terrain("Water", 700 * Milli, 1200 * Milli)
TerrainRocks  == Terrain("Rocks", 600 * Milli, 1300 * Milli)
TerrainSand   == Terrain("Sand", 800 * Milli, 1100 * Milli)
TerrainMud    == Terrain("Mud", 500 * Milli, 1500 * Milli)
TerrainBoost  == Terrain("Boost", 1500 * Milli, 800 * Milli)

\* the six segments generate_track can draw (one per interval of the roll)
CanonicalTerrains ==
    {TerrainNormal, TerrainWater, TerrainRocks, TerrainSand, TerrainMud,
     TerrainBoost}

\* (length / segment_size).ceil() as usize, for length >= 0
NumSegments(length, segment_size) == (length + segment_size - 1) \div segment_size

\* the segment generate_track draws for one roll in [0, 1)
TerrainForRoll(roll) ==
    IF roll < 600 * Milli THEN TerrainNormal
    ELSE IF roll < 750 * Milli THEN TerrainWater
    ELSE IF roll < 850 * Milli THEN TerrainRocks
    ELSE IF roll < 930 * Milli THEN TerrainSand
    ELSE IF roll < 970 * Milli THEN TerrainMud
    ELSE TerrainBoost

\* the tracks generate_track(length, segment_size) returns when every roll
\* is one of rolls
GenerateTrack(length, segment_size, rolls) ==
    {[i \in 1..NumSegments(length, segment_size) |-> TerrainForRoll(rs[i])] :
        rs \in [1..NumSegments(length, segment_size) -> rolls]}

----------------------------------------------------------------------------
(* simulation/turtle.rs *)

TERRAIN_DIFFICULTY == 800000
RECOVERY_RATE == 100000
RECOVERY_THRESHOLD == 500000

Stats(speed, max_energy, recovery, swim, climb, stamina, luck) ==
    [speed |-> speed, max_energy |-> max_energy, recovery |-> recovery,
     swim |-> swim, climb |-> climb, stamina |-> stamina, luck |-> luck]

\* Turtle::new (the random id is not modelled: nothing reads it)
TurtleNew(name, stats) ==
    [name |-> name, stats |-> stats, current_energy |-> stats.max_energy,
     race_distance |-> 0, is_resting |-> FALSE, finished |-> FALSE]

\* Turtle::reset_for_race
ResetForRace(t) ==
    [t EXCEPT !.current_energy = t.stats.max_energy, !.race_distance = 0,
              !.is_resting = FALSE, !.finished = FALSE]

\* section 1 of update_physics: the recovery while resting
RecoveryAmount(stats) ==
    LET stamina_bonus == FDiv(stats.stamina, 20 * Unit)
        recovery_rate == FMul(RECOVERY_RATE, Unit + stamina_bonus)
    IN  FMul(stats.recovery, recovery_rate)

\* section 2 of update_physics: the terrain-specific speed
MoveSpeed(t, terrain) ==
    LET s == t.stats
        sm == terrain.speed_modifier
        factor ==
            CASE terrain.terrain_type = "Water" -> FMul(FDiv(s.swim, 10 * Unit), sm)
              [] terrain.terrain_type = "Rocks" -> FMul(FDiv(s.climb, 10 * Unit), sm)
              [] terrain.terrain_type = "Sand" ->
                    FMul(Unit + FDiv(s.recovery, 15 * Unit), sm)
              [] terrain.terrain_type = "Mud" ->
                    FMul(FDiv(t.current_energy, s.max_energy), sm)
              [] terrain.terrain_type = "Boost" -> FMul(sm, 1200 * Milli)
              [] OTHER -> sm
    IN  FMul(s.speed, factor)

\* section 3 of update_physics: the drain of one moving tick
ActualDrain(terrain) == FMul(FMul(500 * Milli, TERRAIN_DIFFICULTY), terrain.energy_drain)

\* a variant of Recover that rests until the energy is back at max_energy
RecoverToFull(t) ==
    LET e == t.current_energy + RecoveryAmount(t.stats)
    IN  [turtle |-> [t EXCEPT !.current_energy = e,
                              !.is_resting = ~(e >= t.stats.max_energy)],
         distance |-> 0]

\* update_physics on a resting turtle (section 1): recover, leave the rest at
\* the threshold, return 0
Recover(t) ==
    LET e == t.current_energy + RecoveryAmount(t.stats)
    IN  [turtle |-> [t EXCEPT !.current_energy = e,
                              !.is_resting =
                                  ~(e >= FMul(t.stats.max_energy, RECOVERY_THRESHOLD))],
         distance |-> 0]

\* a variant of Advance that drains before it computes the speed
AdvanceDrainFirst(t, terrain) ==
    LET e == t.current_energy - ActualDrain(terrain)
        drained == IF e <= 0
                   THEN [t EXCEPT !.current_energy = 0, !.is_resting = TRUE]
                   ELSE [t EXCEPT !.current_energy = e]
    IN  [turtle |-> drained, distance |-> MoveSpeed(drained, terrain)]

\* a variant of Advance that rests only once the energy is below 0
AdvanceRestBelowZero(t, terrain) ==
    LET e == t.current_energy - ActualDrain(terrain)
    IN  [turtle |-> IF e < 0
                    THEN [t EXCEPT !.current_energy = 0, !.is_resting = TRUE]
                    ELSE [t EXCEPT !.current_energy = e],
         distance |-> MoveSpeed(t, terrain)]

\* update_physics on a moving turtle (sections 2 and 3): the speed on this
\* terrain is returned, the energy drained, and at 0 the turtle rests
Advance(t, terrain) ==
    LET e == t.current_energy - ActualDrain(terrain)
    IN  [turtle |-> IF e <= 0
                    THEN [t EXCEPT !.current_energy = 0, !.is_resting = TRUE]
                    ELSE [t EXCEPT !.current_energy = e],
         distance |-> MoveSpeed(t, terrain)]

\* a variant of UpdatePhysics without the early return for a finished turtle
UpdatePhysicsNoGuard(t, terrain) ==
    IF t.is_resting THEN Recover(t) ELSE Advance(t, terrain)

\* Turtle::update_physics: the turtle after the call and the distance returned
UpdatePhysics(t, terrain) ==
    IF t.finished THEN [turtle |-> t, distance |-> 0]
    ELSE IF t.is_resting THEN Recover(t)
    ELSE Advance(t, terrain)

----------------------------------------------------------------------------
(* simulation/race.rs *)

SEGMENT_SIZE == 50 * Unit
MAX_TICKS == 5000

\* Race::get_terrain_at.  With an empty track, track.len() - 1 underflows:
\* a debug build panics on the subtraction, a release build wraps it and
\* panics on the index.  Either way the call panics.
GetTerrainAt(trk, distance) ==
    LET segment_idx == distance \div SEGMENT_SIZE
    IN  IF Len(trk) = 0 THEN [panic |-> TRUE]
        ELSE [panic |-> FALSE, terrain |-> trk[MinOf(segment_idx, Len(trk) - 1) + 1]]

\* a variant of TickTurtle that assigns the movement instead of adding it
TickTurtleAssign(t, terrain, length) ==
    IF t.finished THEN t
    ELSE LET r == UpdatePhysics(t, terrain)
             d == r.distance
         IN  [r.turtle EXCEPT !.race_distance = d,
                              !.finished = IF d >= length THEN TRUE ELSE @]

\* a variant of TickTurtle that finishes a turtle only beyond the track length
TickTurtleStrict(t, terrain, length) ==
    IF t.finished THEN t
    ELSE LET r == UpdatePhysics(t, terrain)
             d == r.turtle.race_distance + r.distance
         IN  [r.turtle EXCEPT !.race_distance = d,
                              !.finished = IF d > length THEN TRUE ELSE @]

\* the body of tick's loop for one turtle (lines 50-59)
TickTurtle(t, terrain, length) ==
    IF t.finished THEN t
    ELSE LET r == UpdatePhysics(t, terrain)
             d == r.turtle.race_distance + r.distance
         IN  [r.turtle EXCEPT !.race_distance = d,
                              !.finished = IF d >= length THEN TRUE ELSE @]

\* a variant of RaceOver whose cap is one tick late
RaceOverLate(ts, count) == (\E i \in 1..Len(ts) : ts[i].finished) \/ count > MAX_TICKS

\* a variant of RaceOver that waits for every turtle
RaceOverAll(ts, count) == (\A i \in 1..Len(ts) : ts[i].finished) \/ count >= MAX_TICKS

\* what tick() returns once the turtles are updated
RaceOver(ts, count) == (\E i \in 1..Len(ts) : ts[i].finished) \/ count >= MAX_TICKS

\* Race::tick on (trk, ts, length, count): the new roster, counter, and result
TickResult(trk, ts, length, count) ==
    LET terrains == [i \in 1..Len(ts) |-> GetTerrainAt(trk, ts[i].race_distance)]
    IN  IF \E i \in 1..Len(ts) : terrains[i].panic
        THEN [panic |-> TRUE, turtles |-> ts, tick_count |-> count + 1, over |-> FALSE]
        ELSE LET ts2 == [i \in 1..Len(ts) |->
                            TickTurtle(ts[i], terrains[i].terrain, length)]
             IN  [panic |-> FALSE, turtles |-> ts2, tick_count |-> count + 1,
                  over |-> RaceOver(ts2, count + 1)]

\* Iterator::max_by over the roster (a fold that keeps the later of two equal
\* maxima): the index of the winner, 0 for an empty roster
RECURSIVE MaxByFrom(_, _, _)
MaxByFrom(ts, best, i) ==
    IF i > Len(ts) THEN best
    ELSE MaxByFrom(ts, IF ts[best].race_distance > ts[i].race_distance
                       THEN best ELSE i, i + 1)

MaxByDistance(ts) == IF Len(ts) = 0 THEN 0 ELSE MaxByFrom(ts, 1, 2)

\* the value run() returns after its loop
Winner(ts) == IF MaxByDistance(ts) = 0 THEN "DRAW" ELSE ts[MaxByDistance(ts)].name

\* slice::sort_by with |a, b| b.1.partial_cmp(&a.1): a stable sort, descending
\* by distance; here as the insertion of each pair behind its equals
\* a variant of InsertDesc that puts a pair in front of its equals
RECURSIVE InsertBeforeEquals(_, _)
InsertBeforeEquals(sorted, p) ==
    IF sorted = <<>> THEN <<p>>
    ELSE IF Head(sorted)[2] > p[2]
         THEN <<Head(sorted)>> \o InsertBeforeEquals(Tail(sorted), p)
    ELSE <<p>> \o sorted

RECURSIVE InsertDesc(_, _)
InsertDesc(sorted, p) ==
    IF sorted = <<>> THEN <<p>>
    ELSE IF Head(sorted)[2] >= p[2] THEN <<Head(sorted)>> \o InsertDesc(Tail(sorted), p)
    ELSE <<p>> \o sorted

RECURSIVE SortDesc(_, _)
SortDesc(sorted, rest) ==
    IF rest = <<>> THEN sorted
    ELSE SortDesc(InsertDesc(sorted, Head(rest)), Tail(rest))

\* Race::get_positions
Positions(ts) ==
    SortDesc(<<>>, [i \in 1..Len(ts) |-> <<ts[i].name, ts[i].race_distance>>])

----------------------------------------------------------------------------
(* The explored inputs *)

MaxTurtles == 2
MaxDirectCalls == 3

DefaultStats == Stats(5 * Unit, 100 * Unit, 5 * Unit, 5 * Unit, 5 * Unit, 3 * Unit, 3 * Unit)
SlowStats == Stats(5 * Milli, Unit, Unit, 5 * Unit, 5 * Unit, 3 * Unit, 3 * Unit)
EagerStats == Stats(5 * Unit, Unit, 20 * Unit, 5 * Unit, 5 * Unit, 3 * Unit, 3 * Unit)

\* the turtles add_turtle is called with: two of equal stats, one that never
\* finishes within MAX_TICKS, one whose recovery step exceeds its max_energy
Entrants ==
    {TurtleNew("Ada", DefaultStats), TurtleNew("Bob", DefaultStats),
     TurtleNew("Cy", SlowStats), TurtleNew("Dee", EagerStats)}

\* the track lengths Race::new is called with: no segment, one, and two
TrackLengths == {0, 20 * Unit, 60 * Unit}

\* the rolls the random generator returns: a Normal, a Mud and a Boost segment
Rolls == {100 * Milli, 950 * Milli, 980 * Milli}

NoRet == [op |-> "none", val |-> "none"]

\* the race and the genetics engine share nothing: the race runs with the
\* genetics state idle, and the genetics engine with no race
NoGenetics == pool = <<>> /\ gret = [op |-> "none"] /\ gops = 0

----------------------------------------------------------------------------
(* The race: Race::new, add_turtle, tick, run, get_positions *)

Init ==
    /\ track_length \in TrackLengths
    /\ track \in GenerateTrack(track_length, SEGMENT_SIZE, Rolls)
    /\ turtles = <<>>
    /\ tick_count = 0
    /\ pc = "idle"
    /\ ret = NoRet
    /\ calls = 0
    /\ NoGenetics

AddTurtle(t) ==
    /\ pc = "idle"
    /\ Len(turtles) < MaxTurtles
    /\ turtles' = Append(turtles, t)
    /\ ret' = [op |-> "add_turtle", val |-> "none"]
    /\ UNCHANGED <<track, track_length, tick_count, pc, calls, geneVars>>

\* a direct call of tick()
Tick ==
    /\ pc = "idle"
    /\ calls < MaxDirectCalls
    /\ LET r == TickResult(track, turtles, track_length, tick_count)
       IN  /\ turtles' = r.turtles
           /\ tick_count' = r.tick_count
           /\ pc' = IF r.panic THEN "aborted" ELSE "idle"
           /\ ret' = IF r.panic THEN [op |-> "tick", val |-> "panic"]
                     ELSE [op |-> "tick", val |-> r.over]
    /\ calls' = calls + 1
    /\ UNCHANGED <<track, track_length, geneVars>>

\* run(): the resets and the counter, up to the loop
RunStart ==
    /\ pc = "idle"
    /\ turtles' = [i \in 1..Len(turtles) |-> ResetForRace(turtles[i])]
    /\ tick_count' = 0
    /\ pc' = "run_loop"
    /\ ret' = NoRet
    /\ calls' = 0
    /\ UNCHANGED <<track, track_length, geneVars>>

\* run(): one iteration of `while !self.tick() {}`, and the return after the last
RunLoop ==
    /\ pc = "run_loop"
    /\ LET r == TickResult(track, turtles, track_length, tick_count)
       IN  /\ turtles' = r.turtles
           /\ tick_count' = r.tick_count
           /\ pc' = IF r.panic THEN "aborted" ELSE IF r.over THEN "idle" ELSE "run_loop"
           /\ ret' = IF r.panic THEN [op |-> "run", val |-> "panic"]
                     ELSE IF r.over THEN [op |-> "run", val |-> Winner(r.turtles)]
                     ELSE NoRet
    /\ UNCHANGED <<track, track_length, calls, geneVars>>

GetPositions ==
    /\ pc = "idle"
    /\ ret' = [op |-> "get_positions", val |-> Positions(turtles)]
    /\ UNCHANGED <<track, turtles, track_length, tick_count, pc, calls, geneVars>>

Next ==
    \/ \E t \in Entrants : AddTurtle(t)
    \/ Tick
    \/ RunStart
    \/ RunLoop
    \/ GetPositions

Spec == Init /\ [][Next]_vars

----------------------------------------------------------------------------
(* One turtle: Turtle::new, reset_for_race, update_physics on any terrain,  *)
(* and the step Race::tick makes for it.  The turtle is turtles[1].         *)

BriskStats == Stats(5 * Unit, 2 * Unit, 5 * Unit, 5 * Unit, 5 * Unit, 3 * Unit, 3 * Unit)

\* the stats Turtle::new is called with
PhysStats == {BriskStats, EagerStats}

PhysTrackLength == 5 * Unit

Me == turtles[1]

PhysInit ==
    /\ track_length = PhysTrackLength
    /\ track = <<>>
    /\ \E s \in PhysStats : turtles = <<TurtleNew("Ada", s)>>
    /\ tick_count = 0
    /\ pc = "idle"
    /\ ret = NoRet
    /\ calls = 0
    /\ NoGenetics

PhysNew(s) ==
    /\ turtles' = <<TurtleNew("Ada", s)>>
    /\ ret' = [op |-> "new", val |-> "none"]
    /\ UNCHANGED <<track, track_length, tick_count, pc, calls, geneVars>>

PhysReset ==
    /\ turtles' = <<ResetForRace(Me)>>
    /\ ret' = [op |-> "reset_for_race", val |-> "none"]
    /\ UNCHANGED <<track, track_length, tick_count, pc, calls, geneVars>>

\* a direct call of update_physics: the caller drops the distance returned
PhysUpdate(terrain) ==
    /\ turtles' = <<UpdatePhysics(Me, terrain).turtle>>
    /\ ret' = [op |-> "update_physics", val |-> UpdatePhysics(Me, terrain).distance]
    /\ UNCHANGED <<track, track_length, tick_count, pc, calls, geneVars>>

\* the step of Race::tick for this turtle, standing on terrain
PhysTick(terrain) ==
    /\ turtles' = <<TickTurtle(Me, terrain, track_length)>>
    /\ ret' = [op |-> "tick", val |-> "none"]
    /\ UNCHANGED <<track, track_length, tick_count, pc, calls, geneVars>>

PhysNext ==
    \/ \E s \in PhysStats : PhysNew(s)
    \/ PhysReset
    \/ \E terrain \in CanonicalTerrains : PhysUpdate(terrain)
    \/ \E terrain \in CanonicalTerrains : PhysTick(terrain)

TurtleSpec == PhysInit /\ [][PhysNext]_vars

WearyStats == Stats(5 * Unit, Unit, 2 * Unit, 5 * Unit, 5 * Unit, 3 * Unit, 3 * Unit)

\* one turtle in one race: no new, no reset
RestInit ==
    /\ track_length = Unit
    /\ track = <<>>
    /\ turtles = <<TurtleNew("Ada", WearyStats)>>
    /\ tick_count = 0
    /\ pc = "idle"
    /\ ret = NoRet
    /\ calls = 0
    /\ NoGenetics

RestNext ==
    \/ \E terrain \in CanonicalTerrains : PhysUpdate(terrain)
    \/ \E terrain \in CanonicalTerrains : PhysTick(terrain)

\* update_physics keeps being called while it changes anything (Race::run
\* calls tick until the race is over)
FairTurtleSpec == RestInit /\ [][RestNext]_vars /\ WF_vars(RestNext)

----------------------------------------------------------------------------
(* Claims about the race and the turtle *)

Finished(ts) == {i \in 1..Len(ts) : ts[i].finished}

\* a step that is one call of Race::tick, direct or from run()'s loop
TickStep == tick_count' = tick_count + 1

\* C1: for a positive track length, run() leaves its loop after at most
\* MAX_TICKS calls of tick() (the loop is never entered again with the counter
\* at MAX_TICKS, and on return the counter is in 1..MAX_TICKS), and it returns
\* the name of a turtle of the roster, or "DRAW" exactly when the roster is empty.
C1_RunTerminates ==
    track_length > 0 =>
        /\ pc # "aborted"
        /\ pc = "run_loop" => tick_count < MAX_TICKS
        /\ ret.op = "run" =>
            /\ tick_count \in 1..MAX_TICKS
            /\ IF turtles = <<>> THEN ret.val = "DRAW"
               ELSE \E i \in 1..Len(turtles) : ret.val = turtles[i].name

\* run() has returned at the cap with turtles in the race, none of them finished
C1_Witness ==
    /\ ret.op = "run"
    /\ track_length > 0
    /\ tick_count = MAX_TICKS
    /\ turtles # <<>>
    /\ Finished(turtles) = {}
    /\ ret.val = turtles[1].name

\* C2: run() returns the name of a turtle of greatest race_distance, and among
\* several of that distance the first of the roster.
C2_FirstMaxWins ==
    (ret.op = "run" /\ ret.val # "panic" /\ turtles # <<>>) =>
        \E i \in 1..Len(turtles) :
            /\ ret.val = turtles[i].name
            /\ \A j \in 1..Len(turtles) :
                turtles[j].race_distance <= turtles[i].race_distance
            /\ \A j \in 1..(i - 1) :
                turtles[j].race_distance < turtles[i].race_distance

\* C3: 0 <= current_energy <= max_energy in every state of a turtle.
C3_EnergyInRange == 0 <= Me.current_energy /\ Me.current_energy <= Me.stats.max_energy

\* a step in which update_physics ran on the turtle: a direct call, or a tick
\* of a race in which it has not finished
PhysicsRan ==
    \/ ret'.op = "update_physics"
    \/ ret'.op = "tick" /\ ~Me.finished

\* the movement the step's update_physics call returned
Moved ==
    IF ret'.op = "update_physics" THEN ret'.val
    ELSE Me'.race_distance - Me.race_distance

C5_DistanceMonotone ==
    [][TickStep =>
        /\ Len(turtles') = Len(turtles)
        /\ \A i \in 1..Len(turtles) :
            /\ 0 <= turtles[i].race_distance
            /\ turtles[i].race_distance <= turtles'[i].race_distance
            /\ turtles[i].finished => turtles'[i].finished]_vars

\* a tick was made with one turtle finished, another under way and resting
C5_Witness ==
    /\ ret.op = "tick"
    /\ \E i, j \in 1..Len(turtles) :
        /\ turtles[i].finished
        /\ ~turtles[j].finished
        /\ turtles[j].race_distance > 0
        /\ turtles[j].is_resting

\* what the tick of a TickStep returned: the direct call's value, or whether
\* run() left its loop
TickReturned == IF pc = "run_loop" THEN pc' = "idle" ELSE ret'.val

JustFinished == \E i \in 1..Len(turtles) : ~turtles[i].finished /\ turtles'[i].finished

\* C6 as stated: tick() adds one to the counter and returns true exactly when
\* some turtle finished in this very tick or the counter has reached MAX_TICKS.
C6_TrueOnlyWhenJustFinished ==
    [][(TickStep /\ pc' # "aborted") =>
        TickReturned = (JustFinished \/ tick_count' >= MAX_TICKS)]_vars

\* C6 amended: tick() adds one to the counter and returns true exactly when
\* some turtle is finished (in this tick or an earlier one since the last
\* reset) or the counter has reached MAX_TICKS.
C6_TrueWhenAnyFinished ==
    [][((pc = "idle" /\ ret'.op = "tick") \/ pc = "run_loop") =>
        /\ TickStep
        /\ pc' # "aborted" =>
            TickReturned = (Finished(turtles') # {} \/ tick_count' >= MAX_TICKS)]_vars

\* a direct tick() has returned true for a turtle that finished before the
\* call, below the cap
C6_Witness ==
    /\ pc = "idle"
    /\ ret.op = "tick"
    /\ ret.val
    /\ Finished(turtles) # {}
    /\ tick_count < MAX_TICKS
    /\ tick_count > calls
    /\ calls >= 1

\* C7: update_physics on a finished turtle returns 0 and changes nothing of
\* it; update_physics never changes a turtle's finished flag; and a tick
\* leaves a finished turtle as it is.
C7_FinishedIsFrozen ==
    [][/\ ret'.op = "update_physics" =>
            /\ Me'.finished = Me.finished
            /\ Me.finished => (Me' = Me /\ ret'.val = 0)
       /\ (ret'.op = "tick" /\ Me.finished) => Me' = Me]_vars

\* update_physics was called on a finished turtle that is short of energy
C7_Witness ==
    /\ Me.finished
    /\ ret.op = "update_physics"
    /\ Me.current_energy < Me.stats.max_energy

Injections(n) == {f \in [1..n -> 1..n] : \A a, b \in 1..n : f[a] = f[b] => a = b}

\* ps lists the (name, distance) of every turtle of ts once, by non-increasing
\* distance, turtles of equal distance in roster order
StableDescending(ps, ts) ==
    /\ Len(ps) = Len(ts)
    /\ \E f \in Injections(Len(ts)) :
        /\ \A k \in 1..Len(ts) : ps[k] = <<ts[f[k]].name, ts[f[k]].race_distance>>
        /\ \A k, l \in 1..Len(ts) :
            k < l => \/ ps[k][2] > ps[l][2]
                     \/ ps[k][2] = ps[l][2] /\ f[k] < f[l]

\* C8: get_positions() changes nothing of the race and returns one (name,
\* distance) pair per turtle, by non-increasing distance, equal distances in
\* add_turtle order.
C8_PositionsStable ==
    [][ret'.op = "get_positions" =>
        /\ UNCHANGED <<track, turtles, track_length, tick_count>>
        /\ StableDescending(ret'.val, turtles)]_vars

\* get_positions() was called with two turtles of different names level at a
\* positive distance
C8_Witness ==
    /\ ret.op = "get_positions"
    /\ Len(turtles) >= 2
    /\ turtles[1].name # turtles[2].name
    /\ turtles[1].race_distance = turtles[2].race_distance
    /\ turtles[1].race_distance > 0

\* C9: no sequence of Race::new, add_turtle, tick, run and get_positions
\* panics, a track of no segment included.
C9_NoPanic == pc # "aborted"

----------------------------------------------------------------------------
(* types.rs: GeneValue and Rgb *)

RgbValue(c) == [kind |-> "rgb", v |-> c]
DiscreteValue(str) == [kind |-> "discrete", v |-> str]
ContinuousValue(f) == [kind |-> "continuous", v |-> f]

ClampInt(x, lo, hi) == IF x < lo THEN lo ELSE IF x > hi THEN hi ELSE x

\* The blend is computed in f32 as the code computes it, rounding included.
\* Its operands are held exactly: a value is int + frac / 2^25 with
\* 0 <= frac < 2^25.  Every f32 in [0.25, 1) is a multiple of 2^-25, and so
\* is every product of one with a byte.
Grid == 2^25

RECURSIVE BitLen(_)
BitLen(n) == IF n = 0 THEN 0 ELSE 1 + BitLen(n \div 2)

\* the f32 nearest to x, ties to the even mantissa (24 significant bits)
RoundF32(x) ==
    LET len == IF x.int > 0 THEN 25 + BitLen(x.int) ELSE BitLen(x.frac)
        ulp == IF len > 24 THEN 2^(len - 24) ELSE 1
        q == x.frac \div ulp
        r == x.frac % ulp
        up == 2 * r > ulp \/ (2 * r = ulp /\ q % 2 = 1)
        frac == (IF up THEN q + 1 ELSE q) * ulp
    IN  IF frac >= Grid THEN [int |-> x.int + 1, frac |-> frac - Grid]
        ELSE [int |-> x.int, frac |-> frac]

\* (a as f32) * x for a byte a and 0 <= x <= 1 given as x * 2^25
MulByte(a, x) ==
    LET hi == a * (x \div 2^13)
        lo == a * (x % 2^13)
        top == hi + (lo \div 2^13)
    IN  RoundF32([int |-> top \div 2^12, frac |-> (top % 2^12) * 2^13 + (lo % 2^13)])

\* x + y in f32
AddF32(x, y) ==
    LET frac == x.frac + y.frac
    IN  RoundF32(IF frac >= Grid THEN [int |-> x.int + y.int + 1, frac |-> frac - Grid]
                 ELSE [int |-> x.int + y.int, frac |-> frac])

\* 1.0 - bias in f32, as a multiple of 2^-25
OneMinus(bias) ==
    LET d == RoundF32([int |-> 0, frac |-> Grid - bias])
    IN  d.int * Grid + d.frac

\* one channel of Rgb::blend: (a * (1 - bias) + b * bias) as u8
BlendChannel(a, b, bias) ==
    ClampInt(AddF32(MulByte(a, OneMinus(bias)), MulByte(b, bias)).int, 0, 255)

\* Rgb::blend, bias given as bias * 2^25
Blend(c1, c2, bias) ==
    LET bs == ClampInt(bias, 0, Grid)
    IN  <<BlendChannel(c1[1], c2[1], bs), BlendChannel(c1[2], c2[2], bs),
          BlendChannel(c1[3], c2[3], bs)>>

----------------------------------------------------------------------------
(* genetics/genes.rs.  An Option is a sequence of length 0 (None) or 1 (Some). *)

GeneRgb(default) ==
    [gene_type |-> "rgb", default |-> RgbValue(default),
     discrete_options |-> <<>>, continuous_range |-> <<>>]

GeneDiscrete(options, default) ==
    [gene_type |-> "discrete", default |-> DiscreteValue(default),
     discrete_options |-> <<options>>, continuous_range |-> <<>>]

GeneContinuous(lo, hi, default) ==
    [gene_type |-> "continuous", default |-> ContinuousValue(default),
     discrete_options |-> <<>>, continuous_range |-> <<<<lo, hi>>>>]

\* the 19 genes GeneDefinitions::new registers
AllDefinitions ==
    ("shell_base_color" :> GeneRgb(<<34, 139, 34>>)) @@
    ("shell_pattern_type" :> GeneDiscrete(<<"hex", "spots", "stripes", "rings">>, "hex")) @@
    ("shell_pattern_color" :> GeneRgb(<<255, 255, 255>>)) @@
    ("pattern_color" :> GeneRgb(<<255, 255, 255>>)) @@
    ("shell_pattern_density" :> GeneContinuous(100 * Milli, Unit, 500 * Milli)) @@
    ("shell_pattern_opacity" :> GeneContinuous(300 * Milli, Unit, 800 * Milli)) @@
    ("shell_size_modifier" :> GeneContinuous(500 * Milli, 1500 * Milli, Unit)) @@
    ("body_base_color" :> GeneRgb(<<107, 142, 35>>)) @@
    ("body_pattern_type" :>
        GeneDiscrete(<<"solid", "mottled", "speckled", "marbled">>, "solid")) @@
    ("body_pattern_color" :> GeneRgb(<<85, 107, 47>>)) @@
    ("body_pattern_density" :> GeneContinuous(100 * Milli, Unit, 300 * Milli)) @@
    ("head_size_modifier" :> GeneContinuous(700 * Milli, 1300 * Milli, Unit)) @@
    ("head_color" :> GeneRgb(<<139, 90, 43>>)) @@
    ("leg_length" :> GeneContinuous(500 * Milli, 1500 * Milli, Unit)) @@
    ("limb_shape" :> GeneDiscrete(<<"flippers", "feet", "fins">>, "flippers")) @@
    ("leg_thickness_modifier" :> GeneContinuous(700 * Milli, 1300 * Milli, Unit)) @@
    ("leg_color" :> GeneRgb(<<101, 67, 33>>)) @@
    ("eye_color" :> GeneRgb(<<0, 0, 0>>)) @@
    ("eye_size_modifier" :> GeneContinuous(800 * Milli, 1200 * Milli, Unit))

\* The genes the checks range over, one of each kind.  Every operation of the
\* engine handles each gene on its own, from that gene's definition and
\* values alone.
ModelledGenes == {"head_color", "limb_shape", "eye_size_modifier"}

\* GeneDefinitions.definitions
Definitions == [n \in ModelledGenes |-> AllDefinitions[n]]

\* GeneDefinitions::names
Names == DOMAIN Definitions

\* GeneDefinitions::get
DefGet(name) == IF name \in Names THEN <<Definitions[name]>> ELSE <<>>

\* HashMap::get on a trait set
Get(traits, name) == IF name \in DOMAIN traits THEN <<traits[name]>> ELSE <<>>

\* GeneDefinitions::get_defaults
GetDefaults == [n \in Names |-> Definitions[n].default]

\* the trait sets that give each name n one of the values choices[n]: one
\* per outcome of the independent random draws
RECURSIVE Outcomes(_)
Outcomes(choices) ==
    IF DOMAIN choices = {} THEN {[n \in {} |-> n]}
    ELSE LET n == CHOOSE m \in DOMAIN choices : TRUE
             rest == [m \in DOMAIN choices \ {n} |-> choices[m]]
         IN  {(n :> value) @@ others : value \in choices[n], others \in Outcomes(rest)}

\* the colours the three rng.gen_range(0..=255) draws are taken to give
ColourDraws == {<<0, 128, 255>>}

\* the values generate_random can give one gene
RandomGene(def) ==
    CASE def.gene_type = "rgb" -> {RgbValue(c) : c \in ColourDraws}
      [] def.gene_type = "discrete" ->
            IF def.discrete_options # <<>>
            THEN {DiscreteValue(def.discrete_options[1][idx]) :
                    idx \in {1, Len(def.discrete_options[1])}}
            ELSE {def.default}
      [] def.gene_type = "continuous" ->
            IF def.continuous_range # <<>>
            THEN {ContinuousValue(def.continuous_range[1][1]),
                  ContinuousValue(def.continuous_range[1][2])}
            ELSE {def.default}
      [] OTHER -> {def.default}

\* GeneDefinitions::generate_random: every trait set it can return
GenerateRandom == Outcomes([n \in Names |-> RandomGene(Definitions[n])])

----------------------------------------------------------------------------
(* genetics/inheritance.rs *)

\* inherit skipping a gene neither parent supplies
InheritGeneNoDefault(name, parent1, parent2) ==
    LET p1_value == Get(parent1, name)
        p2_value == Get(parent2, name)
    IN  CASE p1_value # <<>> /\ p2_value # <<>> -> {p1_value[1], p2_value[1]}
          [] p1_value # <<>> /\ p2_value = <<>> -> {p1_value[1]}
          [] p1_value = <<>> /\ p2_value # <<>> -> {p2_value[1]}
          [] OTHER -> {}

\* one gene of inherit: the values the child can get
InheritGene(name, parent1, parent2) ==
    LET p1_value == Get(parent1, name)
        p2_value == Get(parent2, name)
    IN  CASE p1_value # <<>> /\ p2_value # <<>> -> {p1_value[1], p2_value[1]}
          [] p1_value # <<>> /\ p2_value = <<>> -> {p1_value[1]}
          [] p1_value = <<>> /\ p2_value # <<>> -> {p2_value[1]}
          [] OTHER -> IF DefGet(name) # <<>> THEN {DefGet(name)[1].default} ELSE {}

\* Inheritance::inherit: every child it can return
Inherit(parent1, parent2) ==
    LET choices == [n \in Names |-> InheritGene(n, parent1, parent2)]
    IN  Outcomes([n \in {m \in Names : choices[m] # {}} |-> choices[n]])

\* the biases rng.gen_range(0.3..0.7) is taken to return, times 2^25: the
\* f32 0.3 it starts from, 0.30000707507133484 and 0.6999999284744263
BiasDraws == {10066330, 10066567, 23488100}

\* one gene of inherit_blended
BlendGene(name, parent1, parent2) ==
    LET def == Definitions[name]
        p1_value == Get(parent1, name)
        p2_value == Get(parent2, name)
        both == p1_value # <<>> /\ p2_value # <<>>
        bothRgb == both /\ p1_value[1].kind = "rgb" /\ p2_value[1].kind = "rgb"
                        /\ def.gene_type = "rgb"
        bothCont == both /\ p1_value[1].kind = "continuous"
                         /\ p2_value[1].kind = "continuous"
                         /\ def.gene_type = "continuous"
    IN  CASE bothRgb ->
                {RgbValue(Blend(p1_value[1].v, p2_value[1].v, bias)) : bias \in BiasDraws}
          [] bothCont ->
                {ContinuousValue((p1_value[1].v + p2_value[1].v) \div 2)}
          [] both /\ def.gene_type = "discrete" -> {p1_value[1], p2_value[1]}
          [] p1_value # <<>> /\ p2_value = <<>> -> {p1_value[1]}
          [] p1_value = <<>> /\ p2_value # <<>> -> {p2_value[1]}
          [] OTHER -> {def.default}

\* Inheritance::inherit_blended: every child it can return
InheritBlended(parent1, parent2) ==
    Outcomes([n \in Names |-> BlendGene(n, parent1, parent2)])

----------------------------------------------------------------------------
(* genetics/mutation.rs *)

\* the noise triples the three rng.gen_range(-30..=30) draws are taken to give
NoiseDraws == {<<-30, -30, -30>>, <<30, 30, 30>>}

\* Mutation::mutate_rgb
MutateRgb(color) ==
    {<<ClampInt(color[1] + d[1], 0, 255), ClampInt(color[2] + d[2], 0, 255),
       ClampInt(color[3] + d[3], 0, 255)>> : d \in NoiseDraws}

\* Mutation::mutate_discrete
MutateDiscrete(current, options) ==
    LET available == {i \in 1..Len(options) : options[i] # current}
    IN  IF available = {} THEN {current} ELSE {options[i] : i \in available}

\* stands for an infinite f32: farther than any range from any value
Huge == Milli * Unit

\* what the Box-Muller line gives for the draws (u1, u2): (0, 0) and (0, 0.5)
\* give +inf and -inf, as ln 0 is -inf and the cosine is 1 or -1; (0.5, 0)
\* and (0.5, 0.5) give sqrt(2 ln 2) = 1.177410 with either sign
NormalDraws ==
    {[inf |-> TRUE, sign |-> 1, abs |-> 0], [inf |-> TRUE, sign |-> -1, abs |-> 0],
     [inf |-> FALSE, sign |-> 1, abs |-> 1177410],
     [inf |-> FALSE, sign |-> -1, abs |-> 1177410]}

\* normal * mutation_strength
Mutation(normal, mutation_strength) ==
    IF normal.inf THEN normal.sign * Huge
    ELSE normal.sign * FMul(normal.abs, mutation_strength)

\* mutate_continuous without its clamp
MutateContinuousUnclamped(value, range) ==
    LET range_size == range[2] - range[1]
        mutation_strength == FMul(range_size, 100 * Milli)
    IN  {value + Mutation(normal, mutation_strength) : normal \in NormalDraws}

\* Mutation::mutate_continuous
MutateContinuous(value, range) ==
    LET range_size == range[2] - range[1]
        mutation_strength == FMul(range_size, 100 * Milli)
    IN  {ClampInt(value + Mutation(normal, mutation_strength), range[1], range[2]) :
            normal \in NormalDraws}

\* Mutation::mutate_gene
MutateGene(value, def) ==
    CASE value.kind = "rgb" /\ def.gene_type = "rgb" ->
            {RgbValue(c) : c \in MutateRgb(value.v)}
      [] value.kind = "discrete" /\ def.gene_type = "discrete" ->
            IF def.discrete_options # <<>>
            THEN {DiscreteValue(o) : o \in MutateDiscrete(value.v, def.discrete_options[1])}
            ELSE {value}
      [] value.kind = "continuous" /\ def.gene_type = "continuous" ->
            IF def.continuous_range # <<>>
            THEN {ContinuousValue(f) : f \in MutateContinuous(value.v, def.continuous_range[1])}
            ELSE {value}
      [] OTHER -> {value}

\* the values rng.gen::<f32>() is taken to return, in [0, 1)
UniformDraws == {0, 999999}

\* mutate comparing the draw with <= in place of <
MutateEntryInclusive(name, value, rate) ==
    LET hit == {u \in UniformDraws : u <= rate}
        miss == UniformDraws \ hit
    IN  (IF miss # {} \/ DefGet(name) = <<>> THEN {value} ELSE {})
        \cup (IF hit # {} /\ DefGet(name) # <<>>
              THEN MutateGene(value, DefGet(name)[1]) ELSE {})

\* one gene of mutate
MutateEntry(name, value, rate) ==
    LET hit == {u \in UniformDraws : u < rate}
        miss == UniformDraws \ hit
    IN  (IF miss # {} \/ DefGet(name) = <<>> THEN {value} ELSE {})
        \cup (IF hit # {} /\ DefGet(name) # <<>>
              THEN MutateGene(value, DefGet(name)[1]) ELSE {})

\* Mutation::mutate: every trait set it can return
Mutate(genetics, rate) ==
    Outcomes([n \in DOMAIN genetics |-> MutateEntry(n, genetics[n], rate)])

\* the rate adaptive_mutate selects
AdaptiveRate(similarity) ==
    IF similarity > 900 * Milli THEN 300 * Milli
    ELSE IF similarity > 700 * Milli THEN 200 * Milli
    ELSE IF similarity > 500 * Milli THEN 100 * Milli
    ELSE 50 * Milli

\* Mutation::adaptive_mutate
AdaptiveMutate(genetics, similarity) == Mutate(genetics, AdaptiveRate(similarity))

----------------------------------------------------------------------------
(* The genetics engine: the caller holds trait sets and feeds them back in *)

\* how many operations a caller chains
MaxGeneOps == 2

\* pool[1] is the trait set the caller is breeding, pool[2] the mate it keeps
Slots == {1, 2}

\* the rates handed to mutate: the two ends of [0, 1]; adaptive_mutate
\* hands it the rates in between
Rates == {0, Unit}

\* the similarities handed to adaptive_mutate, one per breakpoint interval
Similarities == {950 * Milli, 800 * Milli, 600 * Milli, 300 * Milli}

\* the trait sets a caller starts from
Founders == {GetDefaults} \cup GenerateRandom

GeneInit ==
    /\ track_length = 0
    /\ track = <<>>
    /\ turtles = <<>>
    /\ tick_count = 0
    /\ pc = "idle"
    /\ ret = NoRet
    /\ calls = 0
    /\ pool \in [Slots -> Founders]
    /\ gret = [op |-> "none"]
    /\ gops = 0

\* the caller takes the returned trait set as the one it breeds on
Returned(op, child) ==
    /\ gops' = gops + 1
    /\ pool' = [pool EXCEPT ![1] = child]
    /\ gret' = [op |-> op]
    /\ UNCHANGED raceVars

DoInherit(i, j) ==
    /\ gops < MaxGeneOps
    /\ \E child \in Inherit(pool[i], pool[j]) : Returned("inherit", child)

DoInheritBlended(i, j) ==
    /\ gops < MaxGeneOps
    /\ \E child \in InheritBlended(pool[i], pool[j]) : Returned("inherit_blended", child)

DoMutate(rate) ==
    /\ gops < MaxGeneOps
    /\ \E child \in Mutate(pool[1], rate) : Returned("mutate", child)

DoAdaptiveMutate(similarity) ==
    /\ gops < MaxGeneOps
    /\ \E child \in AdaptiveMutate(pool[1], similarity) : Returned("adaptive_mutate", child)

GeneNext ==
    \/ \E i \in Slots, j \in Slots : DoInherit(i, j)
    \/ \E i \in Slots, j \in Slots : DoInheritBlended(i, j)
    \/ \E rate \in Rates : DoMutate(rate)
    \/ \E similarity \in Similarities : DoAdaptiveMutate(similarity)

GeneticsSpec == GeneInit /\ [][GeneNext]_vars

\* the value has the kind its gene declares and lies in the gene's domain
InDomain(value, def) ==
    /\ value.kind = def.gene_type
    /\ CASE value.kind = "rgb" ->
                \A ch \in 1..3 : value.v[ch] \in 0..255
         [] value.kind = "discrete" ->
                \E idx \in 1..Len(def.discrete_options[1]) :
                    def.discrete_options[1][idx] = value.v
         [] value.kind = "continuous" ->
                /\ def.continuous_range[1][1] <= value.v
                /\ value.v <= def.continuous_range[1][2]
         [] OTHER -> FALSE

\* C10: from get_defaults() or generate_random(), after any sequence of
\* inherit, inherit_blended, mutate (rate in [0,1]) and adaptive_mutate, every
\* gene value of every trait set has the kind declared for its gene and lies
\* in its domain: channels in 0..255, a discrete value among the options, a
\* continuous value within the inclusive range.
C10_DomainClosed ==
    \A k \in DOMAIN pool : \A n \in DOMAIN pool[k] :
        /\ n \in Names
        /\ InDomain(pool[k][n], Definitions[n])

\* a mutation has just raised the random colour by 30 a channel, its blue
\* held at 255, moved the limb shape to an option no founder has, and left
\* the continuous gene on its upper bound, as the second operation of a chain
C10_Witness ==
    /\ gret.op = "mutate"
    /\ gops = MaxGeneOps
    /\ LET g == pool[1]
       IN  /\ g["eye_size_modifier"].v = Definitions["eye_size_modifier"].continuous_range[1][2]
           /\ g["head_color"].v = <<30, 158, 255>>
           /\ g["limb_shape"].v = "feet"

----------------------------------------------------------------------------
(* genetics/inheritance.rs: calculate_similarity; types.rs: Rgb::distance *)

\* floor of the square root of n, by bisection on lo <= root < hi
RECURSIVE SqrtIn(_, _, _)
SqrtIn(n, lo, hi) ==
    IF hi - lo <= 1 THEN lo
    ELSE LET mid == (lo + hi) \div 2
         IN  IF mid * mid <= n THEN SqrtIn(n, mid, hi) ELSE SqrtIn(n, lo, mid)

\* an upper limit for the roots taken: 255 * sqrt(3) hundredths is below it
SqrtLimit == 45 * Milli

\* Rgb::distance, in hundredths
Distance(c1, c2) ==
    LET dr == c1[1] - c2[1]
        dg == c1[2] - c2[2]
        db == c1[3] - c2[3]
    IN  SqrtIn((dr * dr + dg * dg + db * db) * 100 * 100, 0, SqrtLimit)

\* a / b for a of either sign
SignedDiv(a, b) == IF a >= 0 THEN FDiv(a, b) ELSE 0 - FDiv(0 - a, b)

Abs(x) == IF x >= 0 THEN x ELSE 0 - x

\* what one registered gene adds to similar
Contribution(name, genetics1, genetics2) ==
    LET def == Definitions[name]
        v1 == Get(genetics1, name)
        v2 == Get(genetics2, name)
        both == v1 # <<>> /\ v2 # <<>>
    IN  CASE both /\ v1[1].kind = "rgb" /\ v2[1].kind = "rgb" /\ def.gene_type = "rgb" ->
                LET max_dist == SqrtIn(255 * 255 * 3 * 100 * 100, 0, SqrtLimit)
                    dist == Distance(v1[1].v, v2[1].v)
                IN  Unit - FDiv(dist, max_dist)
          [] both /\ v1[1].kind = "continuous" /\ v2[1].kind = "continuous"
                  /\ def.gene_type = "continuous" ->
                IF def.continuous_range # <<>>
                THEN LET range == def.continuous_range[1][2] - def.continuous_range[1][1]
                     IN  Unit - FDiv(Abs(v1[1].v - v2[1].v), range)
                ELSE 0
          [] both /\ v1[1].kind = "discrete" /\ v2[1].kind = "discrete"
                  /\ def.gene_type = "discrete" ->
                IF v1[1].v = v2[1].v THEN Unit ELSE 0
          [] OTHER -> 0

RECURSIVE SumOver(_, _, _)
SumOver(names, genetics1, genetics2) ==
    IF names = {} THEN 0
    ELSE LET n == CHOOSE m \in names : TRUE
         IN  Contribution(n, genetics1, genetics2) + SumOver(names \ {n}, genetics1, genetics2)

\* calculate_similarity counting only the genes both sets supply
CalculateSimilarityOfShared(genetics1, genetics2) ==
    LET registered == {n \in Names : DefGet(n) # <<>>}
        similar == SumOver(registered, genetics1, genetics2)
        total == Cardinality(registered \cap DOMAIN genetics1 \cap DOMAIN genetics2)
    IN  IF total > 0 THEN SignedDiv(similar, total * Unit) ELSE 0

\* Inheritance::calculate_similarity
CalculateSimilarity(genetics1, genetics2) ==
    LET registered == {n \in Names : DefGet(n) # <<>>}
        similar == SumOver(registered, genetics1, genetics2)
        total == Cardinality(registered)
    IN  IF total > 0 THEN SignedDiv(similar, total * Unit) ELSE 0

----------------------------------------------------------------------------
(* genetics/mod.rs: pydict_to_genetics.  A Python value is written as the
   GeneValue of the kind it extracts to: a tuple of three bytes as rgb, a str
   as discrete, a float as continuous. *)

\* the registered keys of the dict, the only ones the loop converts
Converted(dict) == {k \in DOMAIN dict : DefGet(k) # <<>>}

\* PyGenetics::pydict_to_genetics: Err when an extract fails
PydictToGenetics(dict) ==
    IF \E k \in Converted(dict) : dict[k].kind # DefGet(k)[1].gene_type
    THEN [ok |-> FALSE, genetics |-> <<>>]
    ELSE [ok |-> TRUE, genetics |-> [k \in Converted(dict) |-> dict[k]]]

----------------------------------------------------------------------------
(* Calls on trait sets a caller supplies: partial, with names and values of
   its own.  pool holds the two arguments, gret the call and what it returned. *)

\* a name no gene is registered under
Unregistered == "wing_span"

CallerNames == Names \cup {Unregistered}

\* the values a caller's trait set gives a name: in and out of the gene's
\* domain, and of another kind than the gene's
CallerValues(n) ==
    CASE n = "head_color" -> {RgbValue(<<255, 255, 255>>), RgbValue(<<254, 255, 255>>)}
      [] n = "limb_shape" ->
            {DiscreteValue("flippers"), DiscreteValue("wings"), ContinuousValue(Unit)}
      [] n = "eye_size_modifier" -> {ContinuousValue(Unit), ContinuousValue(5 * Unit)}
      [] OTHER -> {ContinuousValue(2 * Unit)}

CallerTraitSets ==
    UNION {Outcomes([n \in D |-> CallerValues(n)]) : D \in SUBSET CallerNames}

\* the rates a caller hands to mutate
CallerRates == {0, 500 * Milli, Unit}

TraitInit ==
    /\ track_length = 0
    /\ track = <<>>
    /\ turtles = <<>>
    /\ tick_count = 0
    /\ pc = "idle"
    /\ ret = NoRet
    /\ calls = 0
    /\ pool \in [Slots -> CallerTraitSets]
    /\ gret = [op |-> "none", arg |-> 0, val |-> 0]
    /\ gops = 0

\* one call a run: the arguments stay in pool beside the answer
Answered(op, arg, val) ==
    /\ gret' = [op |-> op, arg |-> arg, val |-> val]
    /\ UNCHANGED <<raceVars, pool, gops>>

NotCalled == gret.op = "none"

CallInherit ==
    /\ NotCalled
    /\ \E child \in Inherit(pool[1], pool[2]) : Answered("inherit", 0, child)

CallInheritBlended ==
    /\ NotCalled
    /\ \E child \in InheritBlended(pool[1], pool[2]) : Answered("inherit_blended", 0, child)

CallMutate(rate) ==
    /\ NotCalled
    /\ \E child \in Mutate(pool[1], rate) : Answered("mutate", rate, child)

CallSimilarity ==
    /\ NotCalled
    /\ Answered("similarity", 0, CalculateSimilarity(pool[1], pool[2]))

CallIngest(k) ==
    /\ NotCalled
    /\ Answered("pydict_to_genetics", k, PydictToGenetics(pool[k]))

TraitNext ==
    \/ CallInherit
    \/ CallInheritBlended
    \/ \E rate \in CallerRates : CallMutate(rate)
    \/ CallSimilarity
    \/ \E k \in Slots : CallIngest(k)

TraitSpec == TraitInit /\ [][TraitNext]_vars

----------------------------------------------------------------------------
(* Claims on single calls *)

\* every name of t is registered and its value is in the gene's domain
Valid(t) == \A n \in DOMAIN t : n \in Names /\ InDomain(t[n], Definitions[n])

Complete(t) == DOMAIN t = Names

\* C11: inherit(p1, p2) returns a trait set whose keys are exactly the
\* registered names, whatever the parents hold: for each gene one of the two
\* parents' values when both supply it, the supplied one when exactly one
\* does, the registry default when neither does; a name that is not
\* registered is never emitted.
C11_InheritKeysAndValues ==
    gret.op = "inherit" =>
        /\ DOMAIN gret.val = Names
        /\ \A n \in Names :
            LET in1 == n \in DOMAIN pool[1]
                in2 == n \in DOMAIN pool[2]
            IN  /\ (in1 /\ in2) => gret.val[n] \in {pool[1][n], pool[2][n]}
                /\ (in1 /\ ~in2) => gret.val[n] = pool[1][n]
                /\ (~in1 /\ in2) => gret.val[n] = pool[2][n]
                /\ (~in1 /\ ~in2) => gret.val[n] = Definitions[n].default

\* a parent carries an unregistered name, no parent has a colour, only the
\* first has a limb shape, and the child took the second's differing eye size
C11_Witness ==
    /\ gret.op = "inherit"
    /\ Unregistered \in DOMAIN pool[1]
    /\ "head_color" \notin DOMAIN pool[1] \cup DOMAIN pool[2]
    /\ "limb_shape" \in DOMAIN pool[1] \ DOMAIN pool[2]
    /\ "eye_size_modifier" \in DOMAIN pool[1] \cap DOMAIN pool[2]
    /\ pool[1]["eye_size_modifier"] # pool[2]["eye_size_modifier"]
    /\ gret.val["eye_size_modifier"] = pool[2]["eye_size_modifier"]

\* C12: for a complete valid trait set t, inherit(t, t) and
\* inherit_blended(t, t) both return exactly t, whatever is drawn.
C12_SelfInheritance ==
    (/\ gret.op \in {"inherit", "inherit_blended"}
     /\ pool[1] = pool[2]
     /\ Complete(pool[1])
     /\ Valid(pool[1]))
        => gret.val = pool[1]

\* C13: in inherit_blended, when both parents supply differing colours for a
\* gene, the child's colour is a clone of neither.
C13_BlendNeverClones ==
    gret.op = "inherit_blended" =>
        \A n \in Names :
            (/\ Definitions[n].gene_type = "rgb"
             /\ n \in DOMAIN pool[1] \cap DOMAIN pool[2]
             /\ pool[1][n].kind = "rgb"
             /\ pool[2][n].kind = "rgb"
             /\ pool[1][n] # pool[2][n])
                => gret.val[n] \notin {pool[1][n], pool[2][n]}

\* the genes both sets supply with a value of the gene's kind
Matched(g1, g2) ==
    {n \in Names : /\ n \in DOMAIN g1 \cap DOMAIN g2
                   /\ g1[n].kind = Definitions[n].gene_type
                   /\ g2[n].kind = Definitions[n].gene_type}

\* C14: similarity(g1, g2) is the sum of the per-gene contributions over the
\* number of registered genes, a missing or kind-mismatched gene adding 0 to
\* the sum and 1 to the count: it is symmetric; for in-domain values it is in
\* [0, 1] and at most the share of the genes both sets supply; and
\* similarity(t, t) is 1.0 for a complete valid t and below 1 for a partial one.
C14_Similarity ==
    gret.op = "similarity" =>
        /\ gret.val = CalculateSimilarity(pool[2], pool[1])
        /\ (Valid(pool[1]) /\ Valid(pool[2])) =>
            /\ 0 <= gret.val
            /\ gret.val <= Unit
            /\ gret.val * Cardinality(Names) <= Unit * Cardinality(Matched(pool[1], pool[2]))
        /\ (pool[1] = pool[2] /\ Valid(pool[1])) =>
            /\ Complete(pool[1]) => gret.val = Unit
            /\ ~Complete(pool[1]) => gret.val < Unit
        /\ Matched(pool[1], pool[2]) = {} => gret.val = 0

\* similarity of a valid partial set with itself: two of three genes, 0.666666
C14_Witness ==
    /\ gret.op = "similarity"
    /\ pool[1] = pool[2]
    /\ Valid(pool[1])
    /\ Cardinality(DOMAIN pool[1]) = 2
    /\ gret.val = 666666

\* C15: mutate(t, rate) returns a trait set with exactly the keys of t, for
\* every rate; a gene of t that is not registered keeps its value; and
\* mutate(t, 0.0) = t.
C15_MutateFrame ==
    gret.op = "mutate" =>
        /\ DOMAIN gret.val = DOMAIN pool[1]
        /\ \A n \in DOMAIN pool[1] \ Names : gret.val[n] = pool[1][n]
        /\ gret.arg = 0 => gret.val = pool[1]

\* a partial set with an unregistered name, mutated at rate 1: the limb shape
\* changed, the unregistered value and the key set did not
C15_Witness ==
    /\ gret.op = "mutate"
    /\ gret.arg = Unit
    /\ Unregistered \in DOMAIN pool[1]
    /\ DOMAIN pool[1] = {Unregistered, "limb_shape"}
    /\ pool[1]["limb_shape"] = DiscreteValue("flippers")
    /\ gret.val["limb_shape"] = DiscreteValue("fins")

\* C16: the conversion of a caller's mapping clamps a continuous value into
\* its gene's range, rejects a discrete value outside the option set and
\* drops a name that is not registered: what it hands on is valid.
C16_IngestionGuards ==
    gret.op = "pydict_to_genetics" =>
        LET dict == pool[gret.arg]
        IN  /\ gret.val.ok => Valid(gret.val.genetics)
            /\ (\E n \in DOMAIN dict \cap Names :
                    /\ Definitions[n].gene_type = "discrete"
                    /\ dict[n].kind = "discrete"
                    /\ ~InDomain(dict[n], Definitions[n])) => ~gret.val.ok

----------------------------------------------------------------------------
(* One turtle moved by update_physics alone, a few calls from Turtle::new *)

\* how many calls of update_physics a run makes
MaxMoveCalls == 3

MoveStats == {DefaultStats, WearyStats}

MoveInit ==
    /\ track_length = PhysTrackLength
    /\ track = <<>>
    /\ \E s \in MoveStats : turtles = <<TurtleNew("Ada", s)>>
    /\ tick_count = 0
    /\ pc = "idle"
    /\ ret = NoRet
    /\ calls = 0
    /\ NoGenetics

MoveUpdate(terrain) ==
    /\ calls < MaxMoveCalls
    /\ calls' = calls + 1
    /\ turtles' = <<UpdatePhysics(Me, terrain).turtle>>
    /\ ret' = [op |-> "update_physics", val |-> UpdatePhysics(Me, terrain).distance]
    /\ UNCHANGED <<track, track_length, tick_count, pc, geneVars>>

MoveNext == \E terrain \in CanonicalTerrains : MoveUpdate(terrain)

MoveSpec == MoveInit /\ [][MoveNext]_vars

\* the multiplier of the terrain for turtle t, as the specification lists it
Multiplier(t, terrain) ==
    LET sm == terrain.speed_modifier
    IN  CASE terrain.terrain_type = "Normal" -> sm
          [] terrain.terrain_type = "Water" -> FMul(FDiv(t.stats.swim, 10 * Unit), sm)
          [] terrain.terrain_type = "Rocks" -> FMul(FDiv(t.stats.climb, 10 * Unit), sm)
          [] terrain.terrain_type = "Sand" ->
                FMul(Unit + FDiv(t.stats.recovery, 15 * Unit), sm)
          [] terrain.terrain_type = "Mud" ->
                FMul(FDiv(t.current_energy, t.stats.max_energy), sm)
          [] terrain.terrain_type = "Boost" -> FMul(sm, 1200 * Milli)

\* C17: for a moving turtle that has not finished, update_physics returns
\* speed times the multiplier of the terrain (Mud's from the energy before
\* the drain) and then takes 0.4 x energy_drain from current_energy, stopping
\* at 0; the movement is returned also by the call that brings the energy to
\* 0.  With speed 5 and max_energy 100 on Normal it returns 5.0 and the
\* energy goes from 100.0 to 99.6.
C17_MovementAndDrain ==
    [][\A terrain \in CanonicalTerrains :
        (MoveUpdate(terrain) /\ ~Me.finished /\ ~Me.is_resting) =>
            LET left == Me.current_energy - FMul(400 * Milli, terrain.energy_drain)
            IN  /\ ret'.val = FMul(Me.stats.speed, Multiplier(Me, terrain))
                /\ Me'.current_energy = IF left > 0 THEN left ELSE 0
                /\ (Me.stats = DefaultStats /\ Me.current_energy = 100 * Unit
                        /\ terrain = TerrainNormal) =>
                    (ret'.val = 5 * Unit /\ Me'.current_energy = 99600 * Milli)]_vars

\* the call that brought the energy to 0 returned a movement
C17_Witness ==
    /\ ret.op = "update_physics"
    /\ ret.val > 0
    /\ Me.current_energy = 0
    /\ Me.is_resting
    /\ calls = 2

\* C18: in every state a turtle of positive stats reaches by new,
\* reset_for_race and update_physics on any terrain, a turtle that is not
\* resting has current_energy > 0 and a resting one has current_energy below
\* half of max_energy; so a moving turtle's movement on Mud is above 0.
C18_ModeAndEnergy ==
    /\ ~Me.is_resting => Me.current_energy > 0
    /\ Me.is_resting => 2 * Me.current_energy < Me.stats.max_energy
    /\ (~Me.is_resting /\ ~Me.finished) => UpdatePhysics(Me, TerrainMud).distance > 0

\* update_physics has just brought a resting turtle's energy to half of
\* max_energy or more, and it is moving again
C18_Witness ==
    /\ ret.op = "update_physics"
    /\ ret.val = 0
    /\ ~Me.is_resting
    /\ ~Me.finished
    /\ Me.current_energy < Me.stats.max_energy
    /\ 2 * Me.current_energy >= Me.stats.max_energy

\* C19: in a race of positive track length, after every tick a turtle is
\* finished if and only if its race_distance is at least track_length; so
\* when run() returns before the cap the turtle it names is finished, and so
\* is every turtle that reached the track length in the last tick.
C19_FinishedIffReached ==
    (track_length > 0 /\ pc # "aborted") =>
        /\ \A i \in 1..Len(turtles) :
            turtles[i].finished <=> turtles[i].race_distance >= track_length
        /\ (ret.op = "run" /\ tick_count < MAX_TICKS) =>
            /\ \E i \in 1..Len(turtles) : turtles[i].name = ret.val
            /\ \A i \in 1..Len(turtles) :
                turtles[i].name = ret.val => turtles[i].finished

\* run() returned before the cap with two turtles, one finished exactly on the
\* line and named, the other short of it
C19_Witness ==
    /\ ret.op = "run"
    /\ tick_count < MAX_TICKS
    /\ track_length > 0
    /\ Len(turtles) = 2
    /\ \E i, j \in 1..2 :
        /\ turtles[i].name = ret.val
        /\ turtles[i].race_distance = track_length
        /\ ~turtles[j].finished

====
